---------------------------- MODULE Spec2Model ----------------------------
(***************************************************************************)
(* Model of src/components/beam-load-calculator.tsx: the form state of     *)
(* BeamLoadCalculator, its handlers, and the recompute effect that runs    *)
(* calculateResults and calculateDiagrams.                                 *)
(*                                                                         *)
(* Numbers.  A JavaScript number is modelled as a record [n, d]:           *)
(*   d > 0            the rational n/d in lowest terms (n # 0)             *)
(*   n = 0, d = 1     +0            n = 0, d = -1    -0                    *)
(*   n = 1, d = 0     +Infinity     n = -1, d = 0    -Infinity             *)
(*   n = 0, d = 0     NaN                                                  *)
(* Arithmetic is exact on the finite values (no binary rounding) and       *)
(* follows IEEE 754 for zeros, infinities and NaN.                         *)
(***************************************************************************)
EXTENDS Integers, Sequences, FiniteSets, TLC

(***************************************************************************)
(* Number values                                                           *)
(***************************************************************************)
NaN == [n |-> 0, d |-> 0]

PosInf == [n |-> 1, d |-> 0]

NegInf == [n |-> -1, d |-> 0]

PosZero == [n |-> 0, d |-> 1]

NegZero == [n |-> 0, d |-> -1]

IsNaN(a) == a.n = 0 /\ a.d = 0

IsInf(a) == a.n # 0 /\ a.d = 0

IsFinite(a) == a.d # 0

IsZero(a) == a.n = 0 /\ a.d # 0

AbsInt(i) == IF i < 0 THEN -i ELSE i

RECURSIVE Gcd(_, _)
Gcd(a, b) == IF b = 0 THEN a ELSE Gcd(b, a % b)

\* sign bit of a non-NaN number: -1 or 1 (a zero carries its sign in d)
Sgn(a) == IF a.n > 0 THEN 1 ELSE IF a.n < 0 THEN -1 ELSE IF a.d < 0 THEN -1 ELSE 1

SignedZero(s) == IF s < 0 THEN NegZero ELSE PosZero

SignedInf(s) == IF s < 0 THEN NegInf ELSE PosInf

\* the finite number p/q for integers p and q > 0
Frac(p, q) ==
    IF p = 0 THEN PosZero
    ELSE LET g == Gcd(AbsInt(p), q) IN [n |-> p \div g, d |-> q \div g]

Int2Num(i) == Frac(i, 1)

Neg(a) ==
    IF IsNaN(a) THEN NaN
    ELSE IF IsZero(a) THEN SignedZero(-Sgn(a))
    ELSE [n |-> -a.n, d |-> a.d]

Abs(a) ==
    IF IsNaN(a) THEN NaN
    ELSE IF IsZero(a) THEN PosZero
    ELSE [n |-> AbsInt(a.n), d |-> a.d]

\* finite and not a zero
IsRegular(a) == a.d > 0 /\ a.n # 0

Add(a, b) ==
    IF IsRegular(a) /\ IsRegular(b)
    THEN LET g == Gcd(a.d, b.d)
             p == a.n * (b.d \div g) + b.n * (a.d \div g)
             q == (a.d \div g) * b.d
         IN  Frac(p, q)
    ELSE IF IsNaN(a) \/ IsNaN(b) THEN NaN
    ELSE IF IsInf(a) /\ IsInf(b) THEN (IF a = b THEN a ELSE NaN)
    ELSE IF IsInf(a) THEN a
    ELSE IF IsInf(b) THEN b
    ELSE IF IsZero(a) /\ IsZero(b)
         THEN (IF Sgn(a) < 0 /\ Sgn(b) < 0 THEN NegZero ELSE PosZero)
    ELSE IF IsZero(a) THEN b
    ELSE a

Sub(a, b) == Add(a, Neg(b))

Mul(a, b) ==
    IF IsRegular(a) /\ IsRegular(b)
    THEN LET g1 == Gcd(AbsInt(a.n), b.d)
             g2 == Gcd(AbsInt(b.n), a.d)
         IN  [n |-> (a.n \div g1) * (b.n \div g2),
              d |-> (a.d \div g2) * (b.d \div g1)]
    ELSE IF IsNaN(a) \/ IsNaN(b) THEN NaN
    ELSE IF IsInf(a) \/ IsInf(b)
         THEN (IF IsZero(a) \/ IsZero(b) THEN NaN ELSE SignedInf(Sgn(a) * Sgn(b)))
    ELSE SignedZero(Sgn(a) * Sgn(b))

Div(a, b) ==
    IF IsRegular(a) /\ IsRegular(b)
    THEN Mul(a, [n |-> Sgn(b) * b.d, d |-> AbsInt(b.n)])
    ELSE IF IsNaN(a) \/ IsNaN(b) THEN NaN
    ELSE IF IsInf(a) THEN (IF IsInf(b) THEN NaN ELSE SignedInf(Sgn(a) * Sgn(b)))
    ELSE IF IsInf(b) THEN SignedZero(Sgn(a) * Sgn(b))
    ELSE IF IsZero(b) THEN (IF IsZero(a) THEN NaN ELSE SignedInf(Sgn(a) * Sgn(b)))
    ELSE SignedZero(Sgn(a) * Sgn(b))

\* n1/d1 < n2/d2 for d1, d2 > 0, by the integer parts and then the
\* remainders, so that no product is formed
RECURSIVE LtFrac(_, _, _, _)
LtFrac(n1, d1, n2, d2) ==
    IF n1 \div d1 # n2 \div d2 THEN n1 \div d1 < n2 \div d2
    ELSE IF n2 % d2 = 0 THEN FALSE
    ELSE IF n1 % d1 = 0 THEN TRUE
    ELSE LtFrac(d2, n2 % d2, d1, n1 % d1)

\* a < b, a <= b, a === b of JavaScript: false when either side is NaN
Lt(a, b) ==
    IF a.d # 0 /\ b.d # 0 THEN LtFrac(a.n, AbsInt(a.d), b.n, AbsInt(b.d))
    ELSE /\ ~IsNaN(a)
         /\ ~IsNaN(b)
         /\ a # b
         /\ (a = NegInf \/ b = PosInf)

NumEq(a, b) ==
    /\ ~IsNaN(a)
    /\ ~IsNaN(b)
    /\ (a = b \/ (IsZero(a) /\ IsZero(b)))

Le(a, b) ==
    IF a.d # 0 /\ b.d # 0 THEN ~LtFrac(b.n, AbsInt(b.d), a.n, AbsInt(a.d))
    ELSE Lt(a, b) \/ NumEq(a, b)

Gt(a, b) == Lt(b, a)

Ge(a, b) == Le(b, a)

\* Math.max / Math.min of two numbers
Max2(a, b) ==
    IF IsNaN(a) \/ IsNaN(b) THEN NaN
    ELSE IF IsZero(a) /\ IsZero(b)
         THEN (IF Sgn(a) > 0 \/ Sgn(b) > 0 THEN PosZero ELSE NegZero)
    ELSE IF Lt(a, b) THEN b ELSE a

Min2(a, b) ==
    IF IsNaN(a) \/ IsNaN(b) THEN NaN
    ELSE IF IsZero(a) /\ IsZero(b)
         THEN (IF Sgn(a) < 0 \/ Sgn(b) < 0 THEN NegZero ELSE PosZero)
    ELSE IF Lt(b, a) THEN b ELSE a

\* a variant of Pow that multiplies once too few (k >= 2)
RECURSIVE PowOneShort(_, _)
PowOneShort(a, k) == IF k <= 2 THEN a ELSE Mul(a, PowOneShort(a, k - 1))

\* Math.pow(a, k) for the integer exponents the code uses (k >= 1)
RECURSIVE Pow(_, _)
Pow(a, k) == IF k = 1 THEN a ELSE Mul(a, Pow(a, k - 1))

RECURSIVE Pow10(_)
Pow10(k) == IF k = 0 THEN 1 ELSE 10 * Pow10(k - 1)

\* quotient and remainder of 10 * r by d for 0 <= r < d, by ten additions of r
\* when 10 * r itself would not fit
RECURSIVE TenTimes(_, _, _, _, _)
TenTimes(r, d, k, q, acc) ==
    IF k = 0 THEN [q |-> q, r |-> acc]
    ELSE IF acc >= d - r THEN TenTimes(r, d, k - 1, q + 1, acc - (d - r))
    ELSE TenTimes(r, d, k - 1, q, acc + r)

NextDigit(r, d) ==
    IF r < 200000000 THEN [q |-> (r * 10) \div d, r |-> (r * 10) % d]
    ELSE TenTimes(r, d, 10, 0, 0)

\* floor(r * 10^f / d) carried out digit by digit, and what is left over
RECURSIVE LongDivide(_, _, _, _)
LongDivide(q, r, d, f) ==
    IF f = 0 THEN [q |-> q, r |-> r]
    ELSE LET t == NextDigit(r, d)
         IN  LongDivide(q * 10 + t.q, t.r, d, f - 1)

\* Number(a.toFixed(f)): NaN and the infinities pass through; a finite value is
\* rounded to f decimals, a tie going away from zero; -0 prints as "0.00", and a
\* negative value that rounds to zero prints as "-0.00", which reads back as -0
ToFixed(a, f) ==
    IF ~IsFinite(a) THEN a
    ELSE IF IsZero(a) THEN PosZero
    ELSE LET w == LongDivide(AbsInt(a.n) \div a.d, AbsInt(a.n) % a.d, a.d, f)
             k == IF w.r >= a.d - w.r THEN w.q + 1 ELSE w.q
         IN  IF k = 0 THEN SignedZero(Sgn(a))
             ELSE Frac(Sgn(a) * k, Pow10(f))

\* quotient and remainder of a * b by c (a, b >= 0, c > 0), by halving b, so
\* that the product itself is never formed
RECURSIVE MulDivMod(_, _, _)
MulDivMod(a, b, c) ==
    IF b = 0 THEN [q |-> 0, r |-> 0]
    ELSE LET h == MulDivMod(a, b \div 2, c)
             r == 2 * h.r + (IF b % 2 = 1 THEN a % c ELSE 0)
             q == 2 * h.q + (IF b % 2 = 1 THEN a \div c ELSE 0)
         IN  [q |-> q + r \div c, r |-> r % c]

\* Number((a / b).toFixed(f)): ToFixed(Div(a, b), f), computed for finite
\* non-zero a and b from the numerators and denominators, without the
\* intermediate quotient
QuotientToFixed(a, b, f) ==
    IF ~(IsRegular(a) /\ IsRegular(b)) THEN ToFixed(Div(a, b), f)
    ELSE LET g1 == Gcd(AbsInt(a.n), AbsInt(b.n))
             g2 == Gcd(a.d, b.d)
             c == (a.d \div g2) * (AbsInt(b.n) \div g1)
             m == MulDivMod(AbsInt(a.n) \div g1, b.d \div g2, c)
             w == LongDivide(m.q, m.r, c, f)
             k == IF w.r >= c - w.r THEN w.q + 1 ELSE w.q
         IN  IF k = 0 THEN SignedZero(Sgn(a) * Sgn(b))
             ELSE Frac(Sgn(a) * Sgn(b) * k, Pow10(f))

(***************************************************************************)
(* Program constants and form state                                        *)
(***************************************************************************)
\* the four entries of standardMaterials; only yieldStrength is read
StandardYield(m) ==
    CASE m = "ASTM A36 Structural Steel" -> Int2Num(250)
      [] m = "ASTM A992 Structural Steel" -> Int2Num(345)
      [] m = "ASTM A572 Grade 50 Steel" -> Int2Num(345)
      [] m = "Custom" -> PosZero

MaterialNames ==
    {"ASTM A36 Structural Steel", "ASTM A992 Structural Steel",
     "ASTM A572 Grade 50 Steel", "Custom"}

BeamTypes == {"Simple Beam", "Cantilever Beam"}

CrossSections == {"Rectangular", "I Beam", "C Channel", "Circular"}

LoadTypes == {"Point Load", "Uniform Load"}

\* the value of an optional field that was never assigned (endPosition?: number)
Undefined == [undefined |-> TRUE]

\* an undefined operand of /, -, +, <, Math.min converts to NaN
ToNumber(v) == IF v = Undefined THEN NaN ELSE v

MaxLoads == 3

InitBeamLength == 1000

InitMagnitude == 1000

numPoints == 100

\* Math.PI, to the precision the bounded integers allow
MathPI == Frac(22, 7)

\* 9.81
Gravity == Frac(981, 100)

Thousand == Int2Num(1000)

Million == Int2Num(1000000)

Two == Int2Num(2)

VARIABLES beamType, beamCrossSection, beamLength, leftSupport, rightSupport,
          loads, material, customMaterial, width, height, flangeWidth,
          flangeThickness, webThickness, diameter, beamDensity,
          beamWeight, results, shearForceData, bendingMomentData,
          dirty, calcLocals, diagLocals, changesLeft,
          reportPc, attempted, captured, logged, saveCalled

inputVars == <<beamType, beamCrossSection, beamLength, leftSupport, rightSupport,
               loads, material, customMaterial, width, height, flangeWidth,
               flangeThickness, webThickness, diameter, beamDensity>>

outputVars == <<beamWeight, results, shearForceData, bendingMomentData,
                calcLocals, diagLocals>>

\* one run of handleDownloadPDF: the capture it is awaiting, the captures
\* it has started, the images it has added, what it has passed to
\* console.error, and whether it has called pdf.save
reportVars == <<reportPc, attempted, captured, logged, saveCalled>>

vars == <<inputVars, outputVars, dirty, changesLeft, reportVars>>

\* the values the two callbacks close over at the current render
Inputs ==
    [beamType |-> beamType, beamCrossSection |-> beamCrossSection,
     beamLength |-> beamLength, leftSupport |-> leftSupport,
     rightSupport |-> rightSupport, loads |-> loads, material |-> material,
     customMaterial |-> customMaterial, width |-> width, height |-> height,
     flangeWidth |-> flangeWidth, flangeThickness |-> flangeThickness,
     webThickness |-> webThickness, diameter |-> diameter,
     beamDensity |-> beamDensity]

(***************************************************************************)
(* calculateResults                                                        *)
(***************************************************************************)
mm2m(v) == Div(v, Thousand)

\* a variant of BeamWeightN that weighs a Custom material by its own density
BeamWeightOfMaterialN(s) ==
    LET beamLengthM == mm2m(s.beamLength)
        widthM == mm2m(s.width)
        heightM == mm2m(s.height)
        flangeWidthM == mm2m(s.flangeWidth)
        flangeThicknessM == mm2m(s.flangeThickness)
        webThicknessM == mm2m(s.webThickness)
        diameterM == mm2m(s.diameter)
        beamVolume ==
            CASE s.beamCrossSection \in {"I Beam", "C Channel"} ->
                   Mul(Add(Mul(Mul(Two, flangeWidthM), flangeThicknessM),
                           Mul(Sub(heightM, Mul(Two, flangeThicknessM)), webThicknessM)),
                       beamLengthM)
              [] s.beamCrossSection = "Circular" ->
                   Mul(Mul(MathPI, Pow(Div(diameterM, Two), 2)), beamLengthM)
              [] OTHER -> Mul(Mul(widthM, heightM), beamLengthM)
        density == IF s.material = "Custom" THEN s.customMaterial.density
                   ELSE s.beamDensity
    IN  Mul(Mul(beamVolume, density), Gravity)

\* beamVolume * beamDensity * 9.81; I Beam and C Channel share one formula and
\* the default branch is the Rectangular one
BeamWeightN(s) ==
    LET beamLengthM == mm2m(s.beamLength)
        widthM == mm2m(s.width)
        heightM == mm2m(s.height)
        flangeWidthM == mm2m(s.flangeWidth)
        flangeThicknessM == mm2m(s.flangeThickness)
        webThicknessM == mm2m(s.webThickness)
        diameterM == mm2m(s.diameter)
        beamVolume ==
            CASE s.beamCrossSection \in {"I Beam", "C Channel"} ->
                   Mul(Add(Mul(Mul(Two, flangeWidthM), flangeThicknessM),
                           Mul(Sub(heightM, Mul(Two, flangeThicknessM)), webThicknessM)),
                       beamLengthM)
              [] s.beamCrossSection = "Circular" ->
                   Mul(Mul(MathPI, Pow(Div(diameterM, Two), 2)), beamLengthM)
              [] OTHER -> Mul(Mul(widthM, heightM), beamLengthM)
    IN  Mul(Mul(beamVolume, s.beamDensity), Gravity)

\* a variant of SupportSpanM that divides by the whole beam, not by the
\* distance between the supports
SpanOfBeamM(s) == mm2m(s.beamLength)

\* (rightSupportM - leftSupportM), the divisor of every reaction share
SupportSpanM(s) == Sub(mm2m(s.rightSupport), mm2m(s.leftSupport))

\* a variant of ResultsReactionStep that places the whole of a uniform load at
\* its start, not at its centroid
ResultsReactionStepAtStart(s, acc, load) ==
    LET leftSupportM == mm2m(s.leftSupport)
        rightSupportM == mm2m(s.rightSupport)
        span == SupportSpanM(s)
        loadStartPositionM == mm2m(load.startPosition)
    IN  IF s.beamType = "Simple Beam"
        THEN IF load.type = "Point Load"
             THEN [R1 |-> Add(acc.R1, Div(Mul(load.magnitude,
                                   Sub(rightSupportM, loadStartPositionM)), span)),
                   R2 |-> Add(acc.R2, Div(Mul(load.magnitude,
                                   Sub(loadStartPositionM, leftSupportM)), span))]
             ELSE LET loadEndPositionM == mm2m(ToNumber(load.endPosition))
                      loadLengthM == Sub(loadEndPositionM, loadStartPositionM)
                      totalLoad == Mul(load.magnitude, loadLengthM)
                      loadCentroidM == loadStartPositionM
                  IN  [R1 |-> Add(acc.R1, Div(Mul(totalLoad,
                                        Sub(rightSupportM, loadCentroidM)), span)),
                       R2 |-> Add(acc.R2, Div(Mul(totalLoad,
                                        Sub(loadCentroidM, leftSupportM)), span))]
        ELSE IF load.type = "Point Load"
             THEN [R1 |-> Add(acc.R1, load.magnitude), R2 |-> acc.R2]
             ELSE LET loadLengthM ==
                          mm2m(Sub(ToNumber(load.endPosition), load.startPosition))
                  IN  [R1 |-> Add(acc.R1, Mul(load.magnitude, loadLengthM)),
                       R2 |-> acc.R2]

\* one pass of the forEach at lines 368-381 (Simple Beam) or 383-390
\* (Cantilever Beam): the reactions after adding load's share to acc
ResultsReactionStep(s, acc, load) ==
    LET leftSupportM == mm2m(s.leftSupport)
        rightSupportM == mm2m(s.rightSupport)
        span == SupportSpanM(s)
        loadStartPositionM == mm2m(load.startPosition)
    IN  IF s.beamType = "Simple Beam"
        THEN IF load.type = "Point Load"
             THEN [R1 |-> Add(acc.R1, Div(Mul(load.magnitude,
                                   Sub(rightSupportM, loadStartPositionM)), span)),
                   R2 |-> Add(acc.R2, Div(Mul(load.magnitude,
                                   Sub(loadStartPositionM, leftSupportM)), span))]
             ELSE LET loadEndPositionM == mm2m(ToNumber(load.endPosition))
                      loadLengthM == Sub(loadEndPositionM, loadStartPositionM)
                      totalLoad == Mul(load.magnitude, loadLengthM)
                      loadCentroidM == Div(Add(loadStartPositionM, loadEndPositionM), Two)
                  IN  [R1 |-> Add(acc.R1, Div(Mul(totalLoad,
                                        Sub(rightSupportM, loadCentroidM)), span)),
                       R2 |-> Add(acc.R2, Div(Mul(totalLoad,
                                        Sub(loadCentroidM, leftSupportM)), span))]
        ELSE IF load.type = "Point Load"
             THEN [R1 |-> Add(acc.R1, load.magnitude), R2 |-> acc.R2]
             ELSE LET loadLengthM ==
                          mm2m(Sub(ToNumber(load.endPosition), load.startPosition))
                  IN  [R1 |-> Add(acc.R1, Mul(load.magnitude, loadLengthM)),
                       R2 |-> acc.R2]

RECURSIVE ResultsReactionsUpTo(_, _)
ResultsReactionsUpTo(s, k) ==
    IF k = 0 THEN [R1 |-> PosZero, R2 |-> PosZero]
    ELSE ResultsReactionStep(s, ResultsReactionsUpTo(s, k - 1), s.loads[k])

ResultsReactions(s) == ResultsReactionsUpTo(s, Len(s.loads))

\* one pass of the forEach at lines 398-412 (Simple Beam) or 414-423
\* (Cantilever Beam): maxBendingMoment after looking at load
MaxMomentStep(s, R1, maxBendingMoment, load) ==
    LET beamLengthM == mm2m(s.beamLength)
        leftSupportM == mm2m(s.leftSupport)
        loadStartPositionM == mm2m(load.startPosition)
    IN  IF s.beamType = "Simple Beam"
        THEN IF load.type = "Point Load"
             THEN LET momentAtLoad == Mul(R1, Sub(loadStartPositionM, leftSupportM))
                  IN  Max2(maxBendingMoment, momentAtLoad)
             ELSE LET loadEndPositionM == mm2m(ToNumber(load.endPosition))
                      loadLengthM == Sub(loadEndPositionM, loadStartPositionM)
                      momentAtStart ==
                          Sub(Mul(R1, Sub(loadStartPositionM, leftSupportM)),
                              Div(Mul(Mul(load.magnitude, loadLengthM),
                                      Add(Sub(loadStartPositionM, leftSupportM),
                                          Div(loadLengthM, Two))), Two))
                      momentAtEnd ==
                          Sub(Mul(R1, Sub(loadEndPositionM, leftSupportM)),
                              Div(Mul(Mul(load.magnitude, loadLengthM),
                                      Sub(Sub(loadEndPositionM, leftSupportM),
                                          Div(loadLengthM, Two))), Two))
                  IN  Max2(Max2(maxBendingMoment, momentAtStart), momentAtEnd)
        ELSE IF load.type = "Point Load"
             THEN LET momentAtFixed ==
                          Mul(load.magnitude, Sub(beamLengthM, mm2m(load.startPosition)))
                  IN  Max2(maxBendingMoment, momentAtFixed)
             ELSE LET loadLengthM ==
                          mm2m(Sub(ToNumber(load.endPosition), load.startPosition))
                      momentAtFixed ==
                          Mul(Mul(load.magnitude, loadLengthM),
                              Sub(beamLengthM,
                                  Div(Add(mm2m(load.startPosition),
                                          mm2m(ToNumber(load.endPosition))), Two)))
                  IN  Max2(maxBendingMoment, momentAtFixed)

\* a variant of MaxMomentUpTo whose running maximum starts at -Infinity
RECURSIVE MaxMomentUnflooredUpTo(_, _, _)
MaxMomentUnflooredUpTo(s, R1, k) ==
    IF k = 0 THEN NegInf
    ELSE MaxMomentStep(s, R1, MaxMomentUnflooredUpTo(s, R1, k - 1), s.loads[k])

\* a variant of MaxMomentUpTo that adds up what each load alone would give
RECURSIVE MaxMomentSummedUpTo(_, _, _)
MaxMomentSummedUpTo(s, R1, k) ==
    IF k = 0 THEN PosZero
    ELSE Add(MaxMomentSummedUpTo(s, R1, k - 1),
             MaxMomentStep(s, R1, PosZero, s.loads[k]))

\* the loop of lines 397-424 from `let maxBendingMoment = 0` (line 395) on
RECURSIVE MaxMomentUpTo(_, _, _)
MaxMomentUpTo(s, R1, k) ==
    IF k = 0 THEN PosZero
    ELSE MaxMomentStep(s, R1, MaxMomentUpTo(s, R1, k - 1), s.loads[k])

MaxShearForce(R) == Max2(Abs(R.R1), Abs(R.R2))

MaxBendingMoment(s, R) == MaxMomentUpTo(s, R.R1, Len(s.loads))

MaterialProps(s) ==
    IF s.material = "Custom" THEN s.customMaterial
    ELSE [yieldStrength |-> StandardYield(s.material)]

\* the switch at lines 430-459: area, momentOfInertia, sectionModulus
SectionProperties(s) ==
    LET widthM == mm2m(s.width)
        heightM == mm2m(s.height)
        flangeWidthM == mm2m(s.flangeWidth)
        flangeThicknessM == mm2m(s.flangeThickness)
        webThicknessM == mm2m(s.webThickness)
        diameterM == mm2m(s.diameter)
        flangedArea ==
            Add(Mul(Mul(Two, flangeWidthM), flangeThicknessM),
                Mul(Sub(heightM, Mul(Two, flangeThicknessM)), webThicknessM))
        offset2 == Pow(Div(Sub(heightM, flangeThicknessM), Two), 2)
        I_web == Div(Mul(webThicknessM,
                         Pow(Sub(heightM, Mul(Two, flangeThicknessM)), 3)), Int2Num(12))
        I_flange ==
            Add(Div(Mul(flangeWidthM, Pow(flangeThicknessM, 3)), Int2Num(6)),
                Mul(Mul(Mul(Two, flangeWidthM), flangeThicknessM), offset2))
        I_flange_c ==
            Add(Div(Mul(flangeWidthM, Pow(flangeThicknessM, 3)), Int2Num(12)),
                Mul(Mul(flangeWidthM, flangeThicknessM), offset2))
        rectI == Div(Mul(widthM, Pow(heightM, 3)), Int2Num(12))
        circI == Div(Mul(MathPI, Pow(diameterM, 4)), Int2Num(64))
    IN  CASE s.beamCrossSection = "I Beam" ->
               LET I == Add(Mul(Two, I_flange), I_web)
               IN  [area |-> flangedArea, momentOfInertia |-> I,
                    sectionModulus |-> Div(I, Div(heightM, Two))]
          [] s.beamCrossSection = "C Channel" ->
               LET I == Add(Mul(Two, I_flange_c), I_web)
               IN  [area |-> flangedArea, momentOfInertia |-> I,
                    sectionModulus |-> Div(I, Div(heightM, Two))]
          [] s.beamCrossSection = "Circular" ->
               [area |-> Mul(MathPI, Pow(Div(diameterM, Two), 2)),
                momentOfInertia |-> circI,
                sectionModulus |-> Div(circI, Div(diameterM, Two))]
          [] OTHER ->
               [area |-> Mul(widthM, heightM), momentOfInertia |-> rectI,
                sectionModulus |-> Div(rectI, Div(heightM, Two))]

\* (a / b) / c for a finite c > 0, taken as a / (b * c): the same number (the
\* arithmetic is exact, and a zero, infinite or NaN b gives the same outcome
\* either way) with a smaller intermediate value
DivDiv(a, b, c) == Div(a, Mul(b, c))

\* a variant of SafetyFactor that reports 0 instead of dividing by a zero stress
SafetyFactorGuarded(yieldStrength, maxNormalStress) ==
    IF IsZero(maxNormalStress) THEN PosZero
    ELSE QuotientToFixed(yieldStrength, maxNormalStress, 2)

\* Number((materialProps.yieldStrength / maxNormalStress).toFixed(2)) (line 470)
SafetyFactor(yieldStrength, maxNormalStress) ==
    QuotientToFixed(yieldStrength, maxNormalStress, 2)

\* the stresses of lines 462-463, next to the values they are computed from
StressLocals(s, R, maxShearForce, maxBendingMoment, sec) ==
    [R1 |-> R.R1, R2 |-> R.R2,
     maxShearForce |-> maxShearForce,
     maxBendingMoment |-> maxBendingMoment,
     maxNormalStress |-> DivDiv(maxBendingMoment, sec.sectionModulus, Million),
     maxShearStress |-> DivDiv(Mul(Frac(3, 2), maxShearForce), sec.area, Million),
     yieldStrength |-> MaterialProps(s).yieldStrength,
     area |-> sec.area,
     momentOfInertia |-> sec.momentOfInertia,
     sectionModulus |-> sec.sectionModulus,
     beamWeightN |-> BeamWeightN(s)]

\* the maxima of lines 394-424 for the reactions R
ExtremaLocals(s, R, sec) ==
    StressLocals(s, R, MaxShearForce(R), MaxBendingMoment(s, R), sec)

\* the local variables of one run of calculateResults, before any rounding
CalculateResultsLocals(s) ==
    ExtremaLocals(s, ResultsReactions(s), SectionProperties(s))

\* the object handed to setResults (lines 465-474)
ResultsOf(s, l) ==
    [maxShearForce |-> ToFixed(l.maxShearForce, 2),
     maxBendingMoment |-> ToFixed(l.maxBendingMoment, 2),
     maxNormalStress |-> ToFixed(l.maxNormalStress, 2),
     maxShearStress |-> ToFixed(l.maxShearStress, 2),
     safetyFactor |-> SafetyFactor(l.yieldStrength, l.maxNormalStress),
     centerOfGravity |-> ToFixed(Div(mm2m(s.beamLength), Two), 3),
     momentOfInertia |-> ToFixed(l.momentOfInertia, 6),
     sectionModulus |-> ToFixed(l.sectionModulus, 6)]

(***************************************************************************)
(* calculateDiagrams (positions stay in millimetres here)                  *)
(***************************************************************************)
\* one pass of the forEach at lines 488-499 (Simple Beam) or 501-508
DiagramReactionStep(s, acc, load) ==
    LET span == Sub(s.rightSupport, s.leftSupport)
    IN  IF s.beamType = "Simple Beam"
        THEN IF load.type = "Point Load"
             THEN [R1 |-> Add(acc.R1, Div(Mul(load.magnitude,
                                   Sub(s.rightSupport, load.startPosition)), span)),
                   R2 |-> Add(acc.R2, Div(Mul(load.magnitude,
                                   Sub(load.startPosition, s.leftSupport)), span))]
             ELSE LET loadLength == Sub(ToNumber(load.endPosition), load.startPosition)
                      totalLoad == Mul(load.magnitude, loadLength)
                      loadCentroid ==
                          Div(Add(load.startPosition, ToNumber(load.endPosition)), Two)
                  IN  [R1 |-> Add(acc.R1, Div(Mul(totalLoad,
                                        Sub(s.rightSupport, loadCentroid)), span)),
                       R2 |-> Add(acc.R2, Div(Mul(totalLoad,
                                        Sub(loadCentroid, s.leftSupport)), span))]
        ELSE IF load.type = "Point Load"
             THEN [R1 |-> Add(acc.R1, load.magnitude), R2 |-> acc.R2]
             ELSE LET loadLength == Sub(ToNumber(load.endPosition), load.startPosition)
                  IN  [R1 |-> Add(acc.R1, Mul(load.magnitude, loadLength)),
                       R2 |-> acc.R2]

RECURSIVE DiagramReactionsUpTo(_, _)
DiagramReactionsUpTo(s, k) ==
    IF k = 0 THEN [R1 |-> PosZero, R2 |-> PosZero]
    ELSE DiagramReactionStep(s, DiagramReactionsUpTo(s, k - 1), s.loads[k])

DiagramReactions(s) == DiagramReactionsUpTo(s, Len(s.loads))

\* Simple Beam, lines 521-528: shear after the first k loads have been subtracted
RECURSIVE SimpleShearUpTo(_, _, _, _)
SimpleShearUpTo(s, x, shear0, k) ==
    IF k = 0 THEN shear0
    ELSE LET load == s.loads[k]
             shear == SimpleShearUpTo(s, x, shear0, k - 1)
         IN  IF load.type = "Point Load" /\ Ge(x, load.startPosition)
             THEN Sub(shear, load.magnitude)
             ELSE IF load.type = "Uniform Load" /\ Ge(x, load.startPosition)
             THEN LET loadedLength ==
                          Min2(Sub(x, load.startPosition),
                               Sub(ToNumber(load.endPosition), load.startPosition))
                  IN  Sub(shear, Mul(load.magnitude, loadedLength))
             ELSE shear

\* Simple Beam, lines 533-541: moment after the first k loads have been subtracted
RECURSIVE SimpleMomentUpTo(_, _, _, _)
SimpleMomentUpTo(s, x, moment0, k) ==
    IF k = 0 THEN moment0
    ELSE LET load == s.loads[k]
             moment == SimpleMomentUpTo(s, x, moment0, k - 1)
         IN  IF load.type = "Point Load" /\ Gt(x, load.startPosition)
             THEN Sub(moment, Mul(load.magnitude, Sub(x, load.startPosition)))
             ELSE IF load.type = "Uniform Load" /\ Gt(x, load.startPosition)
             THEN LET loadedLength ==
                          Min2(Sub(x, load.startPosition),
                               Sub(ToNumber(load.endPosition), load.startPosition))
                      loadCentroid == Add(load.startPosition, Div(loadedLength, Two))
                  IN  Sub(moment, Mul(Mul(load.magnitude, loadedLength),
                                      Sub(x, loadCentroid)))
             ELSE moment

\* a variant of CantileverUpTo that superposes the loads: every load adds its
\* shear and moment to those of the loads before it
RECURSIVE CantileverSuperposedUpTo(_, _, _)
CantileverSuperposedUpTo(s, x, k) ==
    IF k = 0 THEN [shear |-> PosZero, moment |-> PosZero]
    ELSE LET load == s.loads[k]
             before == CantileverSuperposedUpTo(s, x, k - 1)
             endPosition == ToNumber(load.endPosition)
             loadLength == Sub(endPosition, load.startPosition)
             remainingLength == Sub(endPosition, x)
             total == IF load.type = "Point Load" THEN load.magnitude
                      ELSE IF Le(x, load.startPosition)
                           THEN Mul(load.magnitude, loadLength)
                           ELSE Mul(load.magnitude, remainingLength)
             arm == IF load.type = "Point Load"
                    THEN Sub(s.beamLength, load.startPosition)
                    ELSE IF Le(x, load.startPosition)
                         THEN Sub(s.beamLength,
                                  Div(Add(load.startPosition, endPosition), Two))
                         ELSE Div(remainingLength, Two)
             acts == IF load.type = "Point Load" THEN Le(x, load.startPosition)
                     ELSE Le(x, load.startPosition) \/ Lt(x, endPosition)
         IN  IF acts
             THEN [shear |-> Sub(before.shear, total),
                   moment |-> Sub(before.moment, Mul(total, arm))]
             ELSE before

\* Cantilever Beam, lines 543-566: every load overwrites shear and moment
RECURSIVE CantileverUpTo(_, _, _)
CantileverUpTo(s, x, k) ==
    IF k = 0 THEN [shear |-> PosZero, moment |-> PosZero]
    ELSE LET load == s.loads[k]
             endPosition == ToNumber(load.endPosition)
             loadLength == Sub(endPosition, load.startPosition)
             remainingLength == Sub(endPosition, x)
         IN  IF load.type = "Point Load"
             THEN IF Le(x, load.startPosition)
                  THEN [shear |-> Neg(load.magnitude),
                        moment |-> Mul(Neg(load.magnitude),
                                       Sub(s.beamLength, load.startPosition))]
                  ELSE [shear |-> PosZero, moment |-> PosZero]
             ELSE IF load.type = "Uniform Load"
             THEN IF Le(x, load.startPosition)
                  THEN [shear |-> Mul(Neg(load.magnitude), loadLength),
                        moment |-> Mul(Mul(Neg(load.magnitude), loadLength),
                                       Sub(s.beamLength,
                                           Div(Add(load.startPosition, endPosition), Two)))]
                  ELSE IF Gt(x, load.startPosition) /\ Lt(x, endPosition)
                  THEN [shear |-> Mul(Neg(load.magnitude), remainingLength),
                        moment |-> Div(Mul(Mul(Neg(load.magnitude), remainingLength),
                                           remainingLength), Two)]
                  ELSE [shear |-> PosZero, moment |-> PosZero]
             ELSE CantileverUpTo(s, x, k - 1)

\* dx and the sample position of loop index i (0-based), lines 479 and 512
\* a variant of SampleDx that divides by the number of samples
SampleDxByCount(s) == Div(s.beamLength, Int2Num(numPoints))

\* dx = beamLength / (numPoints - 1)
SampleDx(s) == Div(s.beamLength, Int2Num(numPoints - 1))

SampleX(s, i) == Mul(Int2Num(i), SampleDx(s))

\* shear and moment of one loop iteration, before rounding (lines 513-567)
SamplePoint(s, R, x) ==
    IF s.beamType = "Simple Beam"
    THEN LET s1 == IF Ge(x, s.leftSupport) THEN Add(PosZero, R.R1) ELSE PosZero
             s2 == IF Ge(x, s.rightSupport) THEN Sub(s1, R.R2) ELSE s1
             m1 == Mul(R.R1, Sub(x, s.leftSupport))
             m2 == IF Gt(x, s.rightSupport)
                   THEN Sub(m1, Mul(R.R2, Sub(x, s.rightSupport))) ELSE m1
         IN  [shear |-> SimpleShearUpTo(s, x, s2, Len(s.loads)),
              moment |-> SimpleMomentUpTo(s, x, m2, Len(s.loads))]
    ELSE CantileverUpTo(s, x, Len(s.loads))

\* the two points pushed by one loop iteration (lines 569-570); fx is
\* Number(x.toFixed(2)) and p the unrounded shear and moment
PushedPoints(fx, p) ==
    [shear |-> [x |-> fx, y |-> ToFixed(p.shear, 2)],
     moment |-> [x |-> fx, y |-> ToFixed(p.moment, 2)]]

LoopIteration(s, R, x) == PushedPoints(ToFixed(x, 2), SamplePoint(s, R, x))

\* the arrays after the loop, from the points each iteration pushed
Collected(R, pushed) ==
    [R1 |-> R.R1, R2 |-> R.R2,
     shearForceData |-> [i \in DOMAIN pushed |-> pushed[i].shear],
     bendingMomentData |-> [i \in DOMAIN pushed |-> pushed[i].moment]]

DiagramLoop(s, R) ==
    Collected(R, [i \in 1..numPoints |-> LoopIteration(s, R, SampleX(s, i - 1))])

\* the arrays handed to setShearForceData and setBendingMomentData, and the
\* reactions they were built from
CalculateDiagrams(s) == DiagramLoop(s, DiagramReactions(s))

(***************************************************************************)
(* Values the number inputs deliver: Number(e.target.value) of a           *)
(* type="number" field is any finite decimal ("" reads as 0)               *)
(***************************************************************************)
\* The model's integers are 32 bits wide, so the values are chosen to keep
\* every exact intermediate in range; TLC stops with an error if one is not.
MaxStep == 1

MaxChanges == 2

MaxLoadChanges == 3

\* values typed into the form: a few steps away from the initial ones
Lengths == {Int2Num(InitBeamLength * (i + 1)) : i \in 0..MaxStep}

Supports == {Int2Num(InitBeamLength * i) : i \in 0..MaxStep}

LoadPositions ==
    {Int2Num(InitBeamLength \div 2 + (InitBeamLength \div 250) * i) : i \in 0..MaxStep}

Magnitudes == {Int2Num(InitMagnitude * i) : i \in -1..MaxStep}

Dimensions == {Int2Num(0), Int2Num(100), Int2Num(200)}

Strengths == {Int2Num(0), Int2Num(250)}

(***************************************************************************)
(* Initial state: the useState initialisers (lines 280-314); the effect    *)
(* of line 577 has not run yet                                             *)
(***************************************************************************)
\* a variant of CalculateResultsDeps that leaves material out of the list
CalculateResultsDepsWithoutMaterial ==
    {"beamType", "beamCrossSection", "beamLength", "leftSupport", "rightSupport",
     "loads", "customMaterial", "width", "height", "flangeWidth",
     "flangeThickness", "webThickness", "diameter", "beamDensity"}

CalculateResultsDeps ==
    {"beamType", "beamCrossSection", "beamLength", "leftSupport", "rightSupport",
     "loads", "material", "customMaterial", "width", "height", "flangeWidth",
     "flangeThickness", "webThickness", "diameter", "beamDensity"}

CalculateDiagramsDeps ==
    {"beamType", "beamLength", "leftSupport", "rightSupport", "loads"}

\* the callbacks useCallback re-creates when the state named dep changes
Recreated(dep) ==
    (IF dep \in CalculateResultsDeps THEN {"calculateResults"} ELSE {})
    \cup (IF dep \in CalculateDiagramsDeps THEN {"calculateDiagrams"} ELSE {})

NewLoad(len) ==
    [type |-> "Point Load", magnitude |-> Int2Num(InitMagnitude),
     startPosition |-> Div(len, Two), endPosition |-> Undefined]

InitialSupports ==
    /\ leftSupport = PosZero
    /\ rightSupport = Int2Num(1000)

InitialSection ==
    /\ beamCrossSection = "Rectangular"
    /\ customMaterial = [yieldStrength |-> PosZero, elasticModulus |-> PosZero,
                         density |-> PosZero]
    /\ width = Int2Num(100)
    /\ height = Int2Num(200)
    /\ flangeWidth = Int2Num(100)
    /\ flangeThickness = Int2Num(10)
    /\ webThickness = Int2Num(6)
    /\ diameter = Int2Num(100)
    /\ beamDensity = Int2Num(7850)

\* no report has been asked for: handleDownloadPDF is not running
NoReport ==
    /\ reportPc = "idle"
    /\ attempted = {}
    /\ captured = {}
    /\ logged = {}
    /\ saveCalled = FALSE

InitialOutputs ==
    /\ beamWeight = PosZero
    /\ results = [maxShearForce |-> PosZero, maxBendingMoment |-> PosZero,
                  maxNormalStress |-> PosZero, maxShearStress |-> PosZero,
                  safetyFactor |-> PosZero, centerOfGravity |-> PosZero,
                  momentOfInertia |-> PosZero, sectionModulus |-> PosZero]
    /\ shearForceData = <<>>
    /\ bendingMomentData = <<>>
    /\ calcLocals = [ran |-> FALSE]
    /\ diagLocals = [ran |-> FALSE]
    /\ NoReport

InitialForm ==
    /\ beamType = "Simple Beam"
    /\ beamLength = Int2Num(InitBeamLength)
    /\ InitialSupports
    /\ loads = <<[type |-> "Point Load", magnitude |-> Int2Num(InitMagnitude),
                  startPosition |-> Int2Num(500), endPosition |-> Undefined]>>
    /\ material = "ASTM A36 Structural Steel"
    /\ InitialSection
    /\ InitialOutputs
    /\ dirty = {"calculateResults", "calculateDiagrams"}

Init == InitialForm /\ changesLeft = MaxChanges

(***************************************************************************)
(* The effect of lines 577-580: runs after a render in which either        *)
(* callback was re-created, and calls both                                 *)
(***************************************************************************)
\* setBeamWeight (line 361) and setResults (line 465) of a run with locals l
StoreResults(l) ==
    /\ beamWeight' = ToFixed(l.beamWeightN, 2)
    /\ results' = ResultsOf(Inputs, l)
    /\ calcLocals' = [ran |-> TRUE, s |-> Inputs, l |-> l]

RunCalculateResults == StoreResults(CalculateResultsLocals(Inputs))

\* setShearForceData and setBendingMomentData (lines 573-574) of a run g
StoreDiagrams(g) ==
    /\ shearForceData' = g.shearForceData
    /\ bendingMomentData' = g.bendingMomentData
    /\ diagLocals' = [ran |-> TRUE, s |-> Inputs, R1 |-> g.R1, R2 |-> g.R2]

RunCalculateDiagrams == StoreDiagrams(CalculateDiagrams(Inputs))

RecomputeEffect ==
    /\ dirty # {}
    /\ RunCalculateResults
    /\ RunCalculateDiagrams
    /\ dirty' = {}
    /\ UNCHANGED <<inputVars, changesLeft, reportVars>>

(***************************************************************************)
(* Handlers.  An event is handled only after the effects of the previous   *)
(* render have run (React flushes them before the next discrete event).    *)
(* A setter given the value the state already holds causes no re-render;   *)
(* setLoads and setCustomMaterial always receive a fresh array or object.  *)
(***************************************************************************)
Idle == dirty = {}

\* an event is handled when the form is idle, and counts against the bound
Handled ==
    /\ Idle
    /\ changesLeft > 0
    /\ changesLeft' = changesLeft - 1
    /\ UNCHANGED reportVars

\* dirty after a setter of the state named dep; changed: the value differs
Touch(dep, changed) == dirty' = IF changed THEN dirty \cup Recreated(dep) ELSE dirty

SetBeamType(v) ==
    /\ Handled
    /\ beamType' = v
    /\ Touch("beamType", v # beamType)
    /\ UNCHANGED <<beamCrossSection, beamLength, leftSupport, rightSupport, loads,
                   material, customMaterial, width, height, flangeWidth,
                   flangeThickness, webThickness, diameter, beamDensity, outputVars>>

SetBeamCrossSection(v) ==
    /\ Handled
    /\ beamCrossSection' = v
    /\ Touch("beamCrossSection", v # beamCrossSection)
    /\ UNCHANGED <<beamType, beamLength, leftSupport, rightSupport, loads,
                   material, customMaterial, width, height, flangeWidth,
                   flangeThickness, webThickness, diameter, beamDensity, outputVars>>

SetBeamLength(v) ==
    /\ Handled
    /\ beamLength' = v
    /\ Touch("beamLength", v # beamLength)
    /\ UNCHANGED <<beamType, beamCrossSection, leftSupport, rightSupport, loads,
                   material, customMaterial, width, height, flangeWidth,
                   flangeThickness, webThickness, diameter, beamDensity, outputVars>>

\* the two support inputs are rendered for a Simple Beam only (line 792)
SetLeftSupport(v) ==
    /\ Handled
    /\ beamType = "Simple Beam"
    /\ leftSupport' = v
    /\ Touch("leftSupport", v # leftSupport)
    /\ UNCHANGED <<beamType, beamCrossSection, beamLength, rightSupport, loads,
                   material, customMaterial, width, height, flangeWidth,
                   flangeThickness, webThickness, diameter, beamDensity, outputVars>>

SetRightSupport(v) ==
    /\ Handled
    /\ beamType = "Simple Beam"
    /\ rightSupport' = v
    /\ Touch("rightSupport", v # rightSupport)
    /\ UNCHANGED <<beamType, beamCrossSection, beamLength, leftSupport, loads,
                   material, customMaterial, width, height, flangeWidth,
                   flangeThickness, webThickness, diameter, beamDensity, outputVars>>

SetMaterial(v) ==
    /\ Handled
    /\ material' = v
    /\ Touch("material", v # material)
    /\ UNCHANGED <<beamType, beamCrossSection, beamLength, leftSupport, rightSupport,
                   loads, customMaterial, width, height, flangeWidth,
                   flangeThickness, webThickness, diameter, beamDensity, outputVars>>

\* the custom-material inputs are rendered for material = 'Custom' only (line 829)
SetCustomMaterial(field, v) ==
    /\ Handled
    /\ material = "Custom"
    /\ customMaterial' = [customMaterial EXCEPT ![field] = v]
    /\ Touch("customMaterial", TRUE)
    /\ UNCHANGED <<beamType, beamCrossSection, beamLength, leftSupport, rightSupport,
                   loads, material, width, height, flangeWidth,
                   flangeThickness, webThickness, diameter, beamDensity, outputVars>>

\* the dimension inputs rendered depend on the cross-section (lines 864-936)
SetWidth(v) ==
    /\ Handled
    /\ beamCrossSection = "Rectangular"
    /\ width' = v
    /\ Touch("width", v # width)
    /\ UNCHANGED <<beamType, beamCrossSection, beamLength, leftSupport, rightSupport,
                   loads, material, customMaterial, height, flangeWidth,
                   flangeThickness, webThickness, diameter, beamDensity, outputVars>>

SetHeight(v) ==
    /\ Handled
    /\ beamCrossSection \in {"Rectangular", "I Beam", "C Channel"}
    /\ height' = v
    /\ Touch("height", v # height)
    /\ UNCHANGED <<beamType, beamCrossSection, beamLength, leftSupport, rightSupport,
                   loads, material, customMaterial, width, flangeWidth,
                   flangeThickness, webThickness, diameter, beamDensity, outputVars>>

SetFlangeWidth(v) ==
    /\ Handled
    /\ beamCrossSection \in {"I Beam", "C Channel"}
    /\ flangeWidth' = v
    /\ Touch("flangeWidth", v # flangeWidth)
    /\ UNCHANGED <<beamType, beamCrossSection, beamLength, leftSupport, rightSupport,
                   loads, material, customMaterial, width, height,
                   flangeThickness, webThickness, diameter, beamDensity, outputVars>>

SetFlangeThickness(v) ==
    /\ Handled
    /\ beamCrossSection \in {"I Beam", "C Channel"}
    /\ flangeThickness' = v
    /\ Touch("flangeThickness", v # flangeThickness)
    /\ UNCHANGED <<beamType, beamCrossSection, beamLength, leftSupport, rightSupport,
                   loads, material, customMaterial, width, height,
                   flangeWidth, webThickness, diameter, beamDensity, outputVars>>

SetWebThickness(v) ==
    /\ Handled
    /\ beamCrossSection \in {"I Beam", "C Channel"}
    /\ webThickness' = v
    /\ Touch("webThickness", v # webThickness)
    /\ UNCHANGED <<beamType, beamCrossSection, beamLength, leftSupport, rightSupport,
                   loads, material, customMaterial, width, height,
                   flangeWidth, flangeThickness, diameter, beamDensity, outputVars>>

SetDiameter(v) ==
    /\ Handled
    /\ beamCrossSection = "Circular"
    /\ diameter' = v
    /\ Touch("diameter", v # diameter)
    /\ UNCHANGED <<beamType, beamCrossSection, beamLength, leftSupport, rightSupport,
                   loads, material, customMaterial, width, height,
                   flangeWidth, flangeThickness, webThickness, beamDensity, outputVars>>

\* setLoads(next) and what every load handler leaves alone
SetLoads(next) ==
    /\ loads' = next
    /\ Touch("loads", TRUE)
    /\ UNCHANGED <<beamType, beamCrossSection, beamLength, leftSupport, rightSupport,
                   material, customMaterial, width, height, flangeWidth,
                   flangeThickness, webThickness, diameter, beamDensity, outputVars>>

\* the Add Load button is rendered while loads.length < 3 (line 1003)
AddLoadShown == Len(loads) < MaxLoads

addLoad ==
    /\ Handled
    /\ AddLoadShown
    /\ IF Len(loads) < MaxLoads
       THEN SetLoads(Append(loads, NewLoad(beamLength)))
       ELSE UNCHANGED <<inputVars, outputVars, dirty>>

\* a variant of RemoveShown that renders the Remove button on the first load too
RemoveShownOnEveryLoad(index) == index > 0

\* the Remove button is rendered for every load but the first (line 951);
\* index is the 1-based place of the load, the code's index + 1
RemoveShown(index) == index > 1

Filtered(index) ==
    LET keep == {i \in 1..Len(loads) : i # index}
        Nth(k) == CHOOSE i \in keep : Cardinality({j \in keep : j < i}) = k - 1
    IN  [k \in 1..Cardinality(keep) |-> loads[Nth(k)]]

removeLoad(index) ==
    /\ Handled
    /\ index \in 1..Len(loads)
    /\ RemoveShown(index)
    /\ SetLoads(Filtered(index))

\* a variant of Patched that spreads updatedLoad over every load of the list
PatchedEveryLoad(index, updatedLoad) ==
    [i \in 1..Len(loads) |->
        [f \in DOMAIN loads[i] |->
            IF f \in DOMAIN updatedLoad THEN updatedLoad[f] ELSE loads[i][f]]]

\* { ...load, ...updatedLoad } for the load at index, the others as they are
Patched(index, updatedLoad) ==
    [i \in 1..Len(loads) |->
        IF i = index
        THEN [f \in DOMAIN loads[i] |->
                 IF f \in DOMAIN updatedLoad THEN updatedLoad[f] ELSE loads[i][f]]
        ELSE loads[i]]

updateLoad(index, updatedLoad) ==
    /\ Handled
    /\ SetLoads(Patched(index, updatedLoad))

\* the four controls of a load card (lines 959-999); the End Position input is
\* rendered for a Uniform Load only (line 990)
UpdateLoadType(index, v) ==
    /\ index \in 1..Len(loads)
    /\ v # loads[index].type
    /\ updateLoad(index, [type |-> v])

UpdateLoadMagnitude(index, v) ==
    /\ index \in 1..Len(loads)
    /\ updateLoad(index, [magnitude |-> v])

UpdateLoadStart(index, v) ==
    /\ index \in 1..Len(loads)
    /\ updateLoad(index, [startPosition |-> v])

UpdateLoadEnd(index, v) ==
    /\ index \in 1..Len(loads)
    /\ loads[index].type = "Uniform Load"
    /\ updateLoad(index, [endPosition |-> v])

(***************************************************************************)
(* The whole form: every control, at most MaxChanges events                *)
(***************************************************************************)
LoadIndices == 1..MaxLoads

FormEvent ==
    \/ \E v \in BeamTypes : SetBeamType(v)
    \/ \E v \in CrossSections : SetBeamCrossSection(v)
    \/ \E v \in Lengths : SetBeamLength(v)
    \/ \E v \in Supports : SetLeftSupport(v)
    \/ \E v \in Supports : SetRightSupport(v)
    \/ \E v \in MaterialNames : SetMaterial(v)
    \/ \E v \in Strengths : SetCustomMaterial("yieldStrength", v)
    \/ \E v \in Strengths : SetCustomMaterial("elasticModulus", v)
    \/ \E v \in Dimensions : SetWidth(v)
    \/ \E v \in Dimensions : SetHeight(v)
    \/ \E v \in Dimensions : SetFlangeWidth(v)
    \/ \E v \in Dimensions : SetFlangeThickness(v)
    \/ \E v \in Dimensions : SetWebThickness(v)
    \/ \E v \in Dimensions : SetDiameter(v)

\* the controls of the Loads card
LoadEvent ==
    \/ addLoad
    \/ \E i \in LoadIndices : removeLoad(i)
    \/ \E i \in LoadIndices, v \in LoadTypes : UpdateLoadType(i, v)
    \/ \E i \in LoadIndices, v \in Magnitudes : UpdateLoadMagnitude(i, v)
    \/ \E i \in LoadIndices, v \in LoadPositions : UpdateLoadStart(i, v)
    \/ \E i \in LoadIndices, v \in LoadPositions : UpdateLoadEnd(i, v)

Next ==
    \/ FormEvent
    \/ LoadEvent
    \/ RecomputeEffect

Spec == Init /\ [][Next]_vars

(***************************************************************************)
(* The Loads card alone: at most MaxLoadChanges events, enough to fill the *)
(* list and go on                                                          *)
(***************************************************************************)
LoadsInit == InitialForm /\ changesLeft = MaxLoadChanges

LoadsNext ==
    \/ LoadEvent
    \/ RecomputeEffect

LoadsSpec == LoadsInit /\ [][LoadsNext]_vars

(***************************************************************************)
(* calculateResults alone: the inputs are drawn from bounded sets and the  *)
(* callback is applied to them once                                        *)
(***************************************************************************)
\* positions a quarter of the initial beam length apart
KernelPositions == {Int2Num((InitBeamLength \div 4) * i) : i \in 0..(MaxStep + 3)}

\* support positions half of the initial beam length apart
KernelSupports == {Int2Num((InitBeamLength \div 2) * i) : i \in 0..(MaxStep + 1)}

PointLoads ==
    {[type |-> "Point Load", magnitude |-> m, startPosition |-> p,
      endPosition |-> Undefined] : m \in Magnitudes, p \in KernelPositions}

\* Uniform Load cards: the End Position typed in behind the start, or never
\* typed in at all
UniformLoads ==
    {ld \in {[type |-> "Uniform Load", magnitude |-> Int2Num(InitMagnitude),
              startPosition |-> p, endPosition |-> e] :
                p \in KernelPositions, e \in KernelPositions \cup {Undefined}} :
        ld.endPosition = Undefined \/ Lt(ld.startPosition, ld.endPosition)}

\* two or more point loads of the initial magnitude, left to right
StackedLoads ==
    {ld \in UNION {[1..n -> {a \in PointLoads : a.magnitude = Int2Num(InitMagnitude)}] :
                      n \in 2..MaxLoads} :
        \A i \in 1..(Len(ld) - 1) : Lt(ld[i].startPosition, ld[i + 1].startPosition)}

KernelLoadLists == {<<a>> : a \in PointLoads \cup UniformLoads} \cup StackedLoads

ResultsInit ==
    /\ beamType \in BeamTypes
    /\ beamLength \in Lengths
    /\ leftSupport \in KernelSupports
    /\ rightSupport \in KernelSupports
    /\ loads \in KernelLoadLists
    /\ material \in {"ASTM A36 Structural Steel", "Custom"}
    /\ InitialSection
    /\ InitialOutputs
    /\ dirty = {"calculateResults"}
    /\ changesLeft = 0

CalculateResultsCall ==
    /\ dirty # {}
    /\ RunCalculateResults
    /\ dirty' = {}
    /\ UNCHANGED <<inputVars, shearForceData, bendingMomentData, diagLocals,
                   changesLeft, reportVars>>

ResultsSpec == ResultsInit /\ [][CalculateResultsCall]_vars

(***************************************************************************)
(* calculateDiagrams alone, in the same way                                *)
(***************************************************************************)
\* beam lengths typed in with a third decimal
FineLengths ==
    {Add(Int2Num(InitBeamLength), Frac(i, 1000)) : i \in 1..MaxStep}

DiagramsInit ==
    /\ beamType \in BeamTypes
    /\ beamLength \in Lengths \cup FineLengths
    /\ InitialSupports
    /\ loads \in {<<a>> : a \in PointLoads} \cup StackedLoads
    /\ material = "ASTM A36 Structural Steel"
    /\ InitialSection
    /\ InitialOutputs
    /\ dirty = {"calculateDiagrams"}
    /\ changesLeft = 0

CalculateDiagramsCall ==
    /\ dirty # {}
    /\ RunCalculateDiagrams
    /\ dirty' = {}
    /\ UNCHANGED <<inputVars, beamWeight, results, calcLocals, changesLeft, reportVars>>

DiagramsSpec == DiagramsInit /\ [][CalculateDiagramsCall]_vars

(***************************************************************************)
(* Properties.  calcLocals and diagLocals hold the inputs and the locals   *)
(* of the latest run of calculateResults and of calculateDiagrams.         *)
(***************************************************************************)
SinglePointLoad(s) == Len(s.loads) = 1 /\ s.loads[1].type = "Point Load"

\* a run of calculateResults on a Simple Beam with leftSupport < rightSupport
\* and one Point Load placed on the beam
C1_Case ==
    /\ calcLocals.ran
    /\ calcLocals.s.beamType = "Simple Beam"
    /\ Lt(calcLocals.s.leftSupport, calcLocals.s.rightSupport)
    /\ SinglePointLoad(calcLocals.s)
    /\ Le(PosZero, calcLocals.s.loads[1].startPosition)
    /\ Le(calcLocals.s.loads[1].startPosition, calcLocals.s.beamLength)

\* C1: for a Simple Beam with leftSupport < rightSupport and a single Point
\* Load of any magnitude at any startPosition in [0, beamLength], the reactions
\* computed by calculateResults satisfy R1 + R2 = magnitude (in exact
\* arithmetic: the rounding of floating point is not modelled).
C1_Equilibrium ==
    C1_Case =>
        NumEq(Add(calcLocals.l.R1, calcLocals.l.R2), calcLocals.s.loads[1].magnitude)

\* C1's case with both supports carrying a part of the load
C1_BothSupportsLoaded ==
    /\ C1_Case
    /\ ~IsZero(calcLocals.l.R1)
    /\ ~IsZero(calcLocals.l.R2)
    /\ ~NumEq(calcLocals.s.rightSupport, calcLocals.s.beamLength)

\* a run of calculateResults on a Cantilever Beam with one Point Load whose
\* startPosition is the beam length
C2_Case ==
    /\ calcLocals.ran
    /\ calcLocals.s.beamType = "Cantilever Beam"
    /\ SinglePointLoad(calcLocals.s)
    /\ NumEq(calcLocals.s.loads[1].startPosition, calcLocals.s.beamLength)

\* C2: for a Cantilever Beam with a single Point Load of magnitude P whose
\* startPosition equals beamLength (the free end), calculateResults yields
\* R1 = P and maxBendingMoment = P * length, the length in metres.
C2_FreeEndLoad ==
    C2_Case =>
        /\ NumEq(calcLocals.l.R1, calcLocals.s.loads[1].magnitude)
        /\ NumEq(calcLocals.l.maxBendingMoment,
                 Mul(calcLocals.s.loads[1].magnitude, mm2m(calcLocals.s.beamLength)))

\* the moment about x (metres) of the part of load lying left of x
MomentOfPartLeftOf(load, x) ==
    LET a == mm2m(load.startPosition)
    IN  IF ~Lt(a, x) THEN PosZero
        ELSE IF load.type = "Point Load" THEN Mul(load.magnitude, Sub(x, a))
        ELSE LET b == mm2m(ToNumber(load.endPosition))
                 c == Sub(Min2(x, b), a)
             IN  Mul(Mul(load.magnitude, c), Sub(x, Add(a, Div(c, Two))))

RECURSIVE MomentsLeftOf(_, _, _)
MomentsLeftOf(s, x, k) ==
    IF k = 0 THEN PosZero
    ELSE Add(MomentsLeftOf(s, x, k - 1), MomentOfPartLeftOf(s.loads[k], x))

\* M(x) = R1*(x - left) minus the moments of the loads left of x
TrueMoment(s, R1, x) ==
    Sub(Mul(R1, Sub(x, mm2m(s.leftSupport))), MomentsLeftOf(s, x, Len(s.loads)))

\* every point load's position, every uniform load's start and end (metres)
LoadEdges(s) ==
    {mm2m(s.loads[i].startPosition) : i \in 1..Len(s.loads)}
    \cup {mm2m(s.loads[i].endPosition) :
             i \in {j \in 1..Len(s.loads) : s.loads[j].type = "Uniform Load"}}

TrueMaxMoment(s, R1) ==
    LET ms == {TrueMoment(s, R1, x) : x \in LoadEdges(s)}
    IN  CHOOSE m \in ms : \A n \in ms : Ge(m, n)

\* load lies between the supports, with positive magnitude
PlacedBetweenSupports(s, load) ==
    /\ Gt(load.magnitude, PosZero)
    /\ Le(s.leftSupport, load.startPosition)
    /\ Le(load.startPosition, s.rightSupport)
    /\ load.type = "Uniform Load" =>
           /\ load.endPosition # Undefined
           /\ Lt(load.startPosition, load.endPosition)
           /\ Le(load.endPosition, s.rightSupport)

C3_Case ==
    /\ calcLocals.ran
    /\ calcLocals.s.beamType = "Simple Beam"
    /\ Lt(calcLocals.s.leftSupport, calcLocals.s.rightSupport)
    /\ Len(calcLocals.s.loads) \in 1..MaxLoads
    /\ \A i \in 1..Len(calcLocals.s.loads) :
           PlacedBetweenSupports(calcLocals.s, calcLocals.s.loads[i])

\* C3: for a Simple Beam with leftSupport < rightSupport and 1 to 3 loads of
\* positive magnitude placed between the supports, maxBendingMoment (before
\* rounding) equals the maximum, over every point load's position and every
\* uniform load's start and end, of M(x) = R1*(x-left) minus the moments about
\* x of the parts of the loads lying left of x.
C3_TrueMaximum ==
    C3_Case =>
        NumEq(calcLocals.l.maxBendingMoment, TrueMaxMoment(calcLocals.s, calcLocals.l.R1))

\* C4: in every state, after any sequence of addLoad, removeLoad and updateLoad
\* operations reachable through the rendered controls, the load list holds at
\* least 1 and at most 3 loads.
C4_LoadCount == Len(loads) \in 1..MaxLoads

\* the list is full and the controls can still be used
C4_FullList == Len(loads) = MaxLoads /\ dirty = {} /\ changesLeft > 0

\* C5: in every state reachable by addLoad, removeLoad and updateLoad, a load
\* has a defined endPosition if and only if its type is Uniform Load, and that
\* endPosition is greater than startPosition and at most beamLength.
C5_EndPositionDefined ==
    \A i \in 1..Len(loads) :
        /\ loads[i].endPosition # Undefined <=> loads[i].type = "Uniform Load"
        /\ loads[i].endPosition # Undefined =>
               /\ Gt(loads[i].endPosition, loads[i].startPosition)
               /\ Le(loads[i].endPosition, beamLength)

ValidGeometry(s) ==
    /\ Le(PosZero, s.leftSupport)
    /\ Lt(s.leftSupport, s.rightSupport)
    /\ Le(s.rightSupport, s.beamLength)

\* C6: after any sequence of setBeamLength, setLeftSupport and setRightSupport
\* input changes, every run of calculateResults and calculateDiagrams on a
\* Simple Beam sees 0 <= leftSupport < rightSupport <= beamLength.
C6_ValidatedGeometry ==
    /\ calcLocals.ran /\ calcLocals.s.beamType = "Simple Beam"
           => ValidGeometry(calcLocals.s)
    /\ diagLocals.ran /\ diagLocals.s.beamType = "Simple Beam"
           => ValidGeometry(diagLocals.s)

\* C7: after any change to any input, once the recompute effect has run, the
\* stored results, beamWeight, shearForceData and bendingMomentData equal
\* calculateResults and calculateDiagrams applied to the current inputs.
C7_NoStaleResult ==
    dirty = {} =>
        LET g == CalculateDiagrams(Inputs)
        IN  /\ results = ResultsOf(Inputs, CalculateResultsLocals(Inputs))
            /\ beamWeight = ToFixed(BeamWeightN(Inputs), 2)
            /\ shearForceData = g.shearForceData
            /\ bendingMomentData = g.bendingMomentData

\* the effect has run after a change of the material and of another input
C7_RecomputedAfterChanges ==
    /\ dirty = {}
    /\ changesLeft = 0
    /\ material = "Custom"
    /\ calcLocals.ran
    /\ calcLocals.s = Inputs
    /\ IsZero(results.safetyFactor)

\* C8 as stated: whenever calculateDiagrams has run, for any beamLength, beam
\* type and load list, shearForceData and bendingMomentData each hold exactly
\* 100 samples, the first sample's x is 0 and the last sample's x equals
\* beamLength.
C8_LastSampleAtBeamLength ==
    diagLocals.ran =>
        /\ Len(shearForceData) = 100
        /\ Len(bendingMomentData) = 100
        /\ NumEq(shearForceData[1].x, PosZero)
        /\ NumEq(bendingMomentData[1].x, PosZero)
        /\ NumEq(shearForceData[Len(shearForceData)].x, beamLength)
        /\ NumEq(bendingMomentData[Len(bendingMomentData)].x, beamLength)

\* C8, amended: whenever calculateDiagrams has run, shearForceData and
\* bendingMomentData each hold exactly 100 samples, the first sample's x is 0
\* and the last sample's x equals beamLength rounded to two decimals.
C8_LastSampleAtRoundedBeamLength ==
    diagLocals.ran =>
        /\ Len(shearForceData) = 100
        /\ Len(bendingMomentData) = 100
        /\ NumEq(shearForceData[1].x, PosZero)
        /\ NumEq(bendingMomentData[1].x, PosZero)
        /\ NumEq(shearForceData[Len(shearForceData)].x, ToFixed(beamLength, 2))
        /\ NumEq(bendingMomentData[Len(bendingMomentData)].x, ToFixed(beamLength, 2))

\* calculateDiagrams has run on a beam length with a third decimal
C8_FineLengthSampled ==
    /\ diagLocals.ran
    /\ beamLength \in FineLengths
    /\ ~NumEq(ToFixed(beamLength, 2), beamLength)
    /\ Len(shearForceData) = numPoints

\* C9 as stated: the safetyFactor stored by calculateResults is non-finite
\* whenever maxNormalStress is zero or the selected material's yieldStrength
\* is zero.
C9_NonFiniteSafetyFactor ==
    calcLocals.ran /\ (IsZero(calcLocals.l.maxNormalStress)
                          \/ IsZero(calcLocals.l.yieldStrength))
        => ~IsFinite(results.safetyFactor)

\* C9, amended: the safetyFactor stored by calculateResults is non-finite
\* whenever the maxNormalStress it divides by (the value before rounding) is
\* zero; when the material's yieldStrength is zero and that maxNormalStress is
\* finite and not zero, the stored safetyFactor is the finite number 0.
C9_SafetyFactorByStress ==
    calcLocals.ran =>
        /\ IsZero(calcLocals.l.maxNormalStress) => ~IsFinite(results.safetyFactor)
        /\ IsZero(calcLocals.l.yieldStrength) /\ IsRegular(calcLocals.l.maxNormalStress)
               => IsZero(results.safetyFactor)

\* calculateResults has run with no stress on the Custom material at its defaults
C9_ZeroStressZeroYield ==
    /\ calcLocals.ran
    /\ calcLocals.s.material = "Custom"
    /\ IsZero(calcLocals.l.maxNormalStress)
    /\ IsZero(calcLocals.l.yieldStrength)
    /\ IsNaN(results.safetyFactor)

\* C10: for a Simple Beam with leftSupport equal to rightSupport and any
\* single point load, calculateResults completes and both maxShearForce and
\* maxBendingMoment are stored as non-finite values, never as a finite number.
C10_DegenerateSpanPropagates ==
    /\ calcLocals.ran
    /\ calcLocals.s.beamType = "Simple Beam"
    /\ NumEq(calcLocals.s.leftSupport, calcLocals.s.rightSupport)
    /\ SinglePointLoad(calcLocals.s)
    => /\ ~IsFinite(results.maxShearForce)
       /\ ~IsFinite(results.maxBendingMoment)

PointLoadsOnly(s) == \A k \in 1..Len(s.loads) : s.loads[k].type = "Point Load"

\* both callbacks have run on the inputs on display: a Simple Beam with
\* leftSupport < rightSupport and point loads only
C11_Case ==
    /\ dirty = {}
    /\ calcLocals.ran
    /\ beamType = "Simple Beam"
    /\ Lt(leftSupport, rightSupport)
    /\ PointLoadsOnly(Inputs)

CurveLengths == {Int2Num((numPoints - 1) * 10 * (i + 1)) : i \in 0..MaxStep}

\* supports and load edges at the halves of the shortest of these beams
CurvePositions == {Int2Num((numPoints - 1) * 5 * i) : i \in 0..(MaxStep + 1)}

CurvePointLoads ==
    {[type |-> "Point Load", magnitude |-> m, startPosition |-> p,
      endPosition |-> Undefined] : m \in Magnitudes, p \in CurvePositions}

\* Uniform Load cards: the End Position typed in behind the start, or never
\* typed in at all
CurveUniformLoads ==
    {ld \in {[type |-> "Uniform Load", magnitude |-> Int2Num(InitMagnitude \div 1000),
              startPosition |-> p, endPosition |-> e] :
                p \in CurvePositions, e \in CurvePositions \cup {Undefined}} :
        ld.endPosition = Undefined \/ Lt(ld.startPosition, ld.endPosition)}

CurveLoads == CurvePointLoads \cup CurveUniformLoads

\* one load, any two loads, or three point loads of the initial magnitude
CurveLoadLists ==
    {<<a>> : a \in CurveLoads}
    \cup {<<a, b>> : a \in CurveLoads, b \in CurveLoads}
    \cup [1..MaxLoads -> {a \in CurvePointLoads : a.magnitude = Int2Num(InitMagnitude)}]

CurvesInit ==
    /\ beamType \in BeamTypes
    /\ beamLength \in CurveLengths
    /\ leftSupport \in CurvePositions
    /\ rightSupport \in CurvePositions
    /\ loads \in CurveLoadLists
    /\ material = "ASTM A36 Structural Steel"
    /\ InitialSection
    /\ InitialOutputs
    /\ dirty = {"calculateResults", "calculateDiagrams"}
    /\ changesLeft = 0

CurvesSpec == CurvesInit /\ [][RecomputeEffect]_vars

\* the same number: equal as numbers (0 equals -0), or both NaN
SameNumber(a, b) == (IsNaN(a) /\ IsNaN(b)) \/ NumEq(a, b)

\* what load takes off the shear at x: the full magnitude of a point load with
\* startPosition <= x, magnitude times min(x - start, end - start) for a
\* uniform load with start <= x
ShearTakenOff(load, x) ==
    IF ~Le(load.startPosition, x) THEN PosZero
    ELSE IF load.type = "Point Load" THEN load.magnitude
    ELSE Mul(load.magnitude,
             Min2(Sub(x, load.startPosition),
                  Sub(ToNumber(load.endPosition), load.startPosition)))

RECURSIVE ShearTakenOffUpTo(_, _, _)
ShearTakenOffUpTo(s, x, k) ==
    IF k = 0 THEN PosZero
    ELSE Add(ShearTakenOffUpTo(s, x, k - 1), ShearTakenOff(s.loads[k], x))

\* the sum of the reactions whose support position x has reached
ReactionsReached(s, R1, R2, x) ==
    Add(IF Ge(x, s.leftSupport) THEN R1 ELSE PosZero,
        IF Ge(x, s.rightSupport) THEN R2 ELSE PosZero)

\* C12: for a Simple Beam, the shear at each sample x equals the sum of the
\* reactions whose support position has been reached (R1 if x >= leftSupport,
\* plus R2 if x >= rightSupport) minus the load contributions (full magnitude
\* of each point load with startPosition <= x; magnitude times
\* min(x - start, end - start) for each uniform load with start <= x).
C12_ShearSumsReactions ==
    (diagLocals.ran /\ diagLocals.s.beamType = "Simple Beam") =>
        \A i \in 1..Len(shearForceData) :
            LET x == SampleX(diagLocals.s, i - 1)
            IN  SameNumber(shearForceData[i].y,
                           ToFixed(Sub(ReactionsReached(diagLocals.s, diagLocals.R1,
                                                        diagLocals.R2, x),
                                       ShearTakenOffUpTo(diagLocals.s, x,
                                                         Len(diagLocals.s.loads))), 2))

\* the moment of the reactions whose support position x has passed:
\* R1 * (x - leftSupport) when x >= leftSupport, plus R2 * (x - rightSupport)
\* when x > rightSupport
MomentOfReactionsPassed(s, R1, R2, x) ==
    Add(IF Ge(x, s.leftSupport) THEN Mul(R1, Sub(x, s.leftSupport)) ELSE PosZero,
        IF Gt(x, s.rightSupport) THEN Mul(R2, Sub(x, s.rightSupport)) ELSE PosZero)

\* x lies left of both supports and of every load
LeftOfEverything(s, x) ==
    /\ Lt(x, s.leftSupport)
    /\ Lt(x, s.rightSupport)
    /\ \A k \in 1..Len(s.loads) : Lt(x, s.loads[k].startPosition)

\* C13: for a Simple Beam, the bending moment at each sample x is built only
\* from reactions whose support position x has passed: R1 contributes
\* R1 * (x - leftSupport) only when x >= leftSupport and R2 adds
\* R2 * (x - rightSupport) only when x > rightSupport (the loads passed are
\* taken off as lines 533-541 take them off); so a sample lying left of both
\* supports and of every load has moment 0.  Stated for the beams whose
\* supports are in order (leftSupport < rightSupport), where every value is
\* finite.
C13_MomentFromReactionsPassed ==
    (/\ diagLocals.ran
     /\ diagLocals.s.beamType = "Simple Beam"
     /\ Lt(diagLocals.s.leftSupport, diagLocals.s.rightSupport)) =>
        \A i \in 1..Len(bendingMomentData) :
            LET s == diagLocals.s
                x == SampleX(s, i - 1)
                built == SimpleMomentUpTo(s, x,
                             MomentOfReactionsPassed(s, diagLocals.R1, diagLocals.R2, x),
                             Len(s.loads))
            IN  /\ SameNumber(bendingMomentData[i].y, ToFixed(built, 2))
                /\ LeftOfEverything(s, x) => IsZero(bendingMomentData[i].y)

\* the inputs s with every load but the last taken off the list
LastLoadAlone(s) == [s EXCEPT !.loads = <<s.loads[Len(s.loads)]>>]

\* calculateDiagrams has run on a Cantilever Beam with two or three loads
C14_Case ==
    /\ diagLocals.ran
    /\ diagLocals.s.beamType = "Cantilever Beam"
    /\ Len(diagLocals.s.loads) \in 2..MaxLoads

\* C14: for a Cantilever Beam with two or three loads, the shear and moment at
\* every sample equal the values computed from the last load in the list
\* alone: whatever the magnitude, position and type of the earlier loads, both
\* curves are those of the list holding the last load only.
C14_LastLoadWins ==
    C14_Case =>
        /\ shearForceData = CalculateDiagrams(LastLoadAlone(diagLocals.s)).shearForceData
        /\ bendingMomentData =
               CalculateDiagrams(LastLoadAlone(diagLocals.s)).bendingMomentData

\* C14's case with an earlier load that would show in the curves if it
\* counted: it differs from the last load and the curves are not flat
C14_EarlierLoadIgnored ==
    /\ C14_Case
    /\ Len(diagLocals.s.loads) = MaxLoads
    /\ diagLocals.s.loads[1] # diagLocals.s.loads[MaxLoads]
    /\ diagLocals.s.loads[2] # diagLocals.s.loads[MaxLoads]
    /\ \E i \in 1..Len(shearForceData) : ~IsZero(shearForceData[i].y)
    /\ \E i \in 1..Len(bendingMomentData) : ~IsZero(bendingMomentData[i].y)

\* a load's own moment, in N*m: P * (length - x) for a point load at x,
\* w * loadLength * (length - centroid) for a uniform load
OwnMoment(s, load) ==
    LET lengthM == mm2m(s.beamLength)
        startM == mm2m(load.startPosition)
        endM == mm2m(ToNumber(load.endPosition))
    IN  IF load.type = "Point Load"
        THEN Mul(load.magnitude, Sub(lengthM, startM))
        ELSE Mul(Mul(load.magnitude, Sub(endM, startM)),
                 Sub(lengthM, Div(Add(startM, endM), Two)))

OwnMoments(s) == {OwnMoment(s, s.loads[k]) : k \in 1..Len(s.loads)}

\* m is the maximum of the numbers in c, as Math.max takes it: NaN when one of
\* them is NaN, else one of them that none exceeds
IsMaxOf(m, c) ==
    IF \E a \in c : IsNaN(a) THEN IsNaN(m)
    ELSE /\ \E a \in c : NumEq(m, a)
         /\ \A a \in c : Ge(m, a)

\* calculateResults has run on a Cantilever Beam with 1 to 3 loads
C15_Case ==
    /\ calcLocals.ran
    /\ calcLocals.s.beamType = "Cantilever Beam"
    /\ Len(calcLocals.s.loads) \in 1..MaxLoads

\* C15 as stated: for a Cantilever Beam with 1 to 3 loads, maxBendingMoment is
\* the maximum (not the sum) over the loads of each load's own moment:
\* P * (length - x) for a point load at x, and
\* w * loadLength * (length - centroid) for a uniform load.
C15_MaxOverLoads ==
    C15_Case => IsMaxOf(calcLocals.l.maxBendingMoment, OwnMoments(calcLocals.s))

\* C15, amended: maxBendingMoment is the maximum of 0 and the loads' own
\* moments, so it is the maximum over the loads only when that is not negative.
C15_MaxOverLoadsAndZero ==
    C15_Case =>
        IsMaxOf(calcLocals.l.maxBendingMoment, OwnMoments(calcLocals.s) \cup {PosZero})

\* C15's case with three loads whose own moments are all positive, so that
\* their sum exceeds their maximum
C15_SeveralPositiveMoments ==
    /\ C15_Case
    /\ Len(calcLocals.s.loads) = MaxLoads
    /\ \A a \in OwnMoments(calcLocals.s) : Gt(a, PosZero)
    /\ Gt(calcLocals.l.maxBendingMoment, PosZero)

\* the Point Load that stands for a Uniform Load of intensity w over [x0, x1]:
\* the total load w * (x1 - x0), the loaded length taken in metres as
\* calculateResults takes it, placed at (x0 + x1) / 2
EquivalentPointLoad(load) ==
    [type |-> "Point Load",
     magnitude |-> Mul(load.magnitude,
                       mm2m(Sub(ToNumber(load.endPosition), load.startPosition))),
     startPosition |-> Div(Add(load.startPosition, ToNumber(load.endPosition)), Two),
     endPosition |-> Undefined]

\* calculateResults has run on a Simple Beam with leftSupport < rightSupport
\* carrying one Uniform Load over [x0, x1]
C16_Case ==
    /\ calcLocals.ran
    /\ calcLocals.s.beamType = "Simple Beam"
    /\ Lt(calcLocals.s.leftSupport, calcLocals.s.rightSupport)
    /\ Len(calcLocals.s.loads) = 1
    /\ calcLocals.s.loads[1].type = "Uniform Load"
    /\ calcLocals.s.loads[1].endPosition # Undefined

\* C16: on a Simple Beam with leftSupport < rightSupport, a Uniform Load of
\* intensity w over [x0, x1] produces the same R1 and R2 in calculateResults
\* as a single Point Load of magnitude w * (x1 - x0) placed at (x0 + x1) / 2
\* (in exact arithmetic: the rounding of floating point is not modelled).
C16_UniformAsPointLoad ==
    C16_Case =>
        LET point == [calcLocals.s EXCEPT
                         !.loads = <<EquivalentPointLoad(calcLocals.s.loads[1])>>]
        IN  /\ NumEq(calcLocals.l.R1, ResultsReactions(point).R1)
            /\ NumEq(calcLocals.l.R2, ResultsReactions(point).R2)

\* C16's case with the load off the middle of the span, both supports loaded
C16_UnevenShares ==
    /\ C16_Case
    /\ ~IsZero(calcLocals.l.R1)
    /\ ~IsZero(calcLocals.l.R2)
    /\ ~NumEq(calcLocals.l.R1, calcLocals.l.R2)

\* calculateResults has run on a Rectangular section
C17_Case ==
    /\ calcLocals.ran
    /\ calcLocals.s.beamCrossSection = "Rectangular"

\* C17: for a Rectangular section of width w and height h, calculateResults
\* computes area = w * h, momentOfInertia = w * h^3 / 12 and
\* sectionModulus = momentOfInertia / (h / 2) in metre units; for width 100 mm
\* and height 200 mm the reported momentOfInertia is within 1e-6 of 6.667e-5
\* and the reported sectionModulus is 6.667e-4 to the displayed precision of
\* six decimals.
C17_RectangularSection ==
    C17_Case =>
        LET w == Div(calcLocals.s.width, Thousand)
            h == Div(calcLocals.s.height, Thousand)
            I == Div(Mul(w, Mul(h, Mul(h, h))), Int2Num(12))
        IN  /\ SameNumber(calcLocals.l.area, Mul(w, h))
            /\ SameNumber(calcLocals.l.momentOfInertia, I)
            /\ SameNumber(calcLocals.l.sectionModulus, Div(I, Div(h, Two)))
            /\ (calcLocals.s.width = Int2Num(100) /\ calcLocals.s.height = Int2Num(200)) =>
                  /\ Le(Abs(Sub(results.momentOfInertia, Frac(6667, 100000000))),
                        Frac(1, 1000000))
                  /\ NumEq(results.sectionModulus, ToFixed(Frac(6667, 10000000), 6))

\* C17's case for width 100 mm and height 200 mm: 0.000067 and 0.000667 are
\* on display
C17_Section100By200 ==
    /\ C17_Case
    /\ dirty = {}
    /\ width = Int2Num(100)
    /\ height = Int2Num(200)
    /\ results.momentOfInertia = Frac(67, 1000000)
    /\ results.sectionModulus = Frac(667, 1000000)

\* C18: for the same beam configuration and load list (point and uniform
\* loads alike), the reactions R1 and R2 that calculateDiagrams uses to build
\* the curves equal the reactions R1 and R2 that calculateResults uses for
\* maxShearForce and maxBendingMoment.
C18_SameReactions ==
    (dirty = {} /\ calcLocals.ran /\ diagLocals.ran) =>
        /\ SameNumber(diagLocals.R1, calcLocals.l.R1)
        /\ SameNumber(diagLocals.R2, calcLocals.l.R2)

(***************************************************************************)
(* handleDownloadPDF (lines 586-741): an async handler.  It runs to its    *)
(* first await in the click's own task and resumes, once per settled       *)
(* capture, in a later one; the form stays live in between.  The three     *)
(* elements it looks up are rendered unconditionally (lines 1031, 1050,    *)
(* 1064), so every `if (element)` is taken.  One run is followed at a time. *)
(***************************************************************************)
\* the ids passed to getElementById, in the order of capture
Diagrams == <<"beam-diagram", "shear-force-diagram", "bending-moment-diagram">>

DiagramIds == {Diagrams[k] : k \in 1..Len(Diagrams)}

\* the first argument of the console.error of each inner catch
CaptureError(k) ==
    CASE k = 1 -> "Error capturing beam diagram:"
      [] k = 2 -> "Error capturing shear force diagram:"
      [] k = 3 -> "Error capturing bending moment diagram:"

\* the first argument of the console.error of the outer catch (line 739)
ReportError == "Error generating PDF:"

\* the click, when the text pages are written without an exception: lines
\* 587-690, up to the await of the first capture
ClickDownload ==
    /\ reportPc = "idle"
    /\ reportPc' = Diagrams[1]
    /\ attempted' = {Diagrams[1]}
    /\ captured' = {}
    /\ logged' = {}
    /\ saveCalled' = FALSE
    /\ UNCHANGED <<inputVars, outputVars, dirty, changesLeft>>

\* the click, when a call of lines 589-683 throws: the outer catch logs, and
\* no capture is started
ReportTextThrows ==
    /\ reportPc = "idle"
    /\ reportPc' = "idle"
    /\ attempted' = {}
    /\ captured' = {}
    /\ logged' = {ReportError}
    /\ saveCalled' = FALSE
    /\ UNCHANGED <<inputVars, outputVars, dirty, changesLeft>>

\* what follows the try/catch of diagram k, said being what its catch logged:
\* the next capture is started, or, after the last, pdf.save is called (lines
\* 736-737), which may throw into the outer catch
Resume(k, said, saveThrows) ==
    IF k < Len(Diagrams)
    THEN /\ reportPc' = Diagrams[k + 1]
         /\ attempted' = attempted \cup {Diagrams[k + 1]}
         /\ logged' = logged \cup said
         /\ saveCalled' = saveCalled
    ELSE /\ reportPc' = "idle"
         /\ attempted' = attempted
         /\ logged' = logged \cup said \cup (IF saveThrows THEN {ReportError} ELSE {})
         /\ saveCalled' = TRUE

\* a variant of CaptureFails without the inner try: the exception reaches the
\* outer catch, which ends the run
CaptureFailsUncaught(k) ==
    /\ reportPc = Diagrams[k]
    /\ reportPc' = "idle"
    /\ logged' = logged \cup {ReportError}
    /\ UNCHANGED <<attempted, captured, saveCalled>>
    /\ UNCHANGED <<inputVars, outputVars, dirty, changesLeft>>

\* the capture of diagram k is rejected, or toDataURL, pdf.text or
\* pdf.addImage throws: the inner catch logs and the run goes on
CaptureFails(k) ==
    /\ reportPc = Diagrams[k]
    /\ captured' = captured
    /\ \E saveThrows \in BOOLEAN : Resume(k, {CaptureError(k)}, saveThrows)
    /\ UNCHANGED <<inputVars, outputVars, dirty, changesLeft>>

\* the capture of diagram k resolves and its image is added to the page
CaptureSucceeds(k) ==
    /\ reportPc = Diagrams[k]
    /\ captured' = captured \cup {Diagrams[k]}
    /\ \E saveThrows \in BOOLEAN : Resume(k, {}, saveThrows)
    /\ UNCHANGED <<inputVars, outputVars, dirty, changesLeft>>

\* the promise of the capture awaited is settled, one way or the other
CaptureSettles == \E k \in 1..Len(Diagrams) : CaptureSucceeds(k) \/ CaptureFails(k)

ReportInit == InitialForm /\ changesLeft = MaxChanges

ReportNext ==
    \/ ClickDownload
    \/ ReportTextThrows
    \/ \E k \in 1..Len(Diagrams) : CaptureSucceeds(k)
    \/ \E k \in 1..Len(Diagrams) : CaptureFails(k)
    \/ LoadEvent
    \/ RecomputeEffect

\* html2canvas settles every promise it returns, and the continuation of a
\* settled promise is run
ReportSpec == ReportInit /\ [][ReportNext]_vars /\ WF_vars(CaptureSettles)

\* the captures that were started and came to nothing
FailedCaptures == attempted \ (captured \cup {reportPc})

\* C19: in handleDownloadPDF, a failure while capturing any one of the three
\* diagrams (beam, shear force, bending moment) does not prevent the remaining
\* captures from being attempted, and pdf.save is still eventually called.
C19_SaveAfterFailedCapture ==
    (FailedCaptures # {}) ~> (saveCalled /\ attempted = DiagramIds)

\* a run in which the first capture failed, a later one succeeded and
\* pdf.save was called
C19_SavedWithoutBeamDiagram ==
    /\ reportPc = "idle"
    /\ saveCalled
    /\ Diagrams[1] \in FailedCaptures
    /\ CaptureError(1) \in logged
    /\ captured # {}
    /\ attempted = DiagramIds

\* every field of every load is a finite number
FiniteLoads(s) ==
    \A k \in 1..Len(s.loads) :
        /\ IsFinite(s.loads[k].magnitude)
        /\ IsFinite(s.loads[k].startPosition)
        /\ s.loads[k].type = "Uniform Load" =>
              (s.loads[k].endPosition # Undefined /\ IsFinite(s.loads[k].endPosition))

\* the largest of the candidate moments the loop of lines 397-424 takes from
\* load: what Math.max leaves of a running maximum of -Infinity
LargestCandidate(s, R1, load) == MaxMomentStep(s, R1, NegInf, load)

AllCandidatesNegative(s, R1) ==
    \A k \in 1..Len(s.loads) : Lt(LargestCandidate(s, R1, s.loads[k]), PosZero)

\* calculateResults has run on finite inputs with leftSupport < rightSupport
C20_Case ==
    /\ calcLocals.ran
    /\ Lt(calcLocals.s.leftSupport, calcLocals.s.rightSupport)
    /\ IsFinite(calcLocals.s.beamLength)
    /\ FiniteLoads(calcLocals.s)

\* C20: for all finite inputs with leftSupport < rightSupport,
\* maxBendingMoment is never negative: it starts at 0 and only grows by
\* Math.max, so when every candidate moment is negative (e.g. all load
\* magnitudes negative) it is reported as 0.
C20_NeverNegative ==
    C20_Case =>
        /\ ~Lt(calcLocals.l.maxBendingMoment, PosZero)
        /\ ~Lt(results.maxBendingMoment, PosZero)
        /\ results.maxBendingMoment # NegZero
        /\ AllCandidatesNegative(calcLocals.s, calcLocals.l.R1) =>
              results.maxBendingMoment = PosZero

\* C20's case with a load of negative magnitude whose candidate moments are
\* all negative, and 0 reported
C20_NegativeCandidatesReportZero ==
    /\ C20_Case
    /\ \E k \in 1..Len(calcLocals.s.loads) :
           Lt(calcLocals.s.loads[k].magnitude, PosZero)
    /\ AllCandidatesNegative(calcLocals.s, calcLocals.l.R1)
    /\ results.maxBendingMoment = PosZero

\* the inputs a and b differ in the material and the custom material at most
SameButMaterial(a, b) ==
    [a EXCEPT !.material = b.material, !.customMaterial = b.customMaterial] = b

\* the results on display were computed for the inputs on display, or for
\* inputs that differ from them in the material or the custom material only
C21_MaterialAlone ==
    /\ calcLocals.ran
    /\ diagLocals.ran
    /\ SameButMaterial(calcLocals.s, Inputs)
    /\ SameButMaterial(diagLocals.s, Inputs)

\* a step from such a state leaves everything on display but safetyFactor as
\* it is, and beamDensity at 7850
C21_Step ==
    C21_MaterialAlone =>
        /\ [results' EXCEPT !.safetyFactor = results.safetyFactor] = results
        /\ beamWeight' = beamWeight
        /\ shearForceData' = shearForceData
        /\ bendingMomentData' = bendingMomentData
        /\ beamDensity' = Int2Num(7850)

\* C21: changing the selected material or the custom material's fields
\* changes only safetyFactor: maxShearForce, maxBendingMoment,
\* maxNormalStress, maxShearStress, momentOfInertia, sectionModulus,
\* beamWeight and both curves are left unchanged, by the setter and by the
\* recomputation that follows it (beamWeight always uses the fixed
\* beamDensity of 7850, never the material's density).
C21_OnlySafetyFactor == [][C21_Step]_vars

\* the results recomputed after the material alone was changed, to one of
\* another yield strength: safetyFactor is no longer that of the initial
\* material, the beam weight is still that of the initial form
C21_RecomputedForOtherMaterial ==
    /\ dirty = {}
    /\ changesLeft = MaxChanges - 1
    /\ material # "ASTM A36 Structural Steel"
    /\ calcLocals.ran
    /\ calcLocals.s = Inputs
    /\ results.safetyFactor #
           SafetyFactor(StandardYield("ASTM A36 Structural Steel"),
                        calcLocals.l.maxNormalStress)
    /\ ~IsZero(beamWeight)

\* patches of one field, as the controls of a load card pass them, and of two
\* fields, as Partial<Load> allows
Patches ==
    {[type |-> v] : v \in LoadTypes}
    \cup {[magnitude |-> v] : v \in Magnitudes}
    \cup {[startPosition |-> v] : v \in LoadPositions}
    \cup {[endPosition |-> v] : v \in LoadPositions}
    \cup {[type |-> t, endPosition |-> v] : t \in LoadTypes, v \in LoadPositions}

\* C22: updateLoad(i, patch) changes only the fields named in patch on the
\* load at index i: the list length, the order of the loads, every other load
\* and every unnamed field of load i stay unchanged, and an out-of-range i
\* leaves the whole list unchanged.  Checked on the list updateLoad passes to
\* setLoads, for every list the form reaches, the places 0..MaxLoads + 1 (the
\* code's index + 1) and every patch.
C22_UpdateLoadFrame ==
    \A index \in 0..(MaxLoads + 1), patch \in Patches :
        LET next == Patched(index, patch)
        IN  /\ Len(next) = Len(loads)
            /\ \A i \in 1..Len(loads) : i # index => next[i] = loads[i]
            /\ index \in 1..Len(loads) =>
                  /\ DOMAIN next[index] = DOMAIN loads[index]
                  /\ \A f \in DOMAIN patch : next[index][f] = patch[f]
                  /\ \A f \in DOMAIN loads[index] \ DOMAIN patch :
                         next[index][f] = loads[index][f]
            /\ index \notin 1..Len(loads) => next = loads

\* updateLoad has acted on the second of two loads: its magnitude is the one
\* typed in, its other fields are those addLoad gave it, and the first load
\* is the initial one
C22_SecondLoadPatched ==
    /\ Len(loads) = 2
    /\ loads[1] = [type |-> "Point Load", magnitude |-> Int2Num(InitMagnitude),
                   startPosition |-> Int2Num(500), endPosition |-> Undefined]
    /\ loads[2] = [NewLoad(beamLength) EXCEPT !.magnitude = Int2Num(-InitMagnitude)]
    /\ dirty = {}

=============================================================================
